---- MODULE Spec2Model ----
(***************************************************************************)
(* Model of the Bitcoin HTLC transaction builders                          *)
(* (src/shuttle/providers/bitcoin/transaction.py) and of the fee, UTXO     *)
(* selection and envelope helpers (src/swap/providers/bitcoin/utils.py).   *)
(*                                                                         *)
(* Python values are represented as follows.                               *)
(*   - an attribute that may be None is a sequence of length 0 (None) or   *)
(*     1 (the value);                                                      *)
(*   - a list is a sequence; list indexes are 0-based as in Python;        *)
(*   - a dict is a record;                                                 *)
(*   - a raised exception is the name of its class in last.error, and ""   *)
(*     when the call returned.                                             *)
(***************************************************************************)
EXTENDS Integers, Sequences, FiniteSets, TLC

VARIABLES builder, last

vars == <<builder, last>>

\* ------------------------------------------------------------------ bounds
\* Longest UTXO list a wallet reports.
MaxUtxos == 3

\* Largest input / output count handed to the fee calculator directly.
MaxCount == 9

\* ------------------------------------------------------- python plumbing
None == <<>>

Some(x) == <<x>>

Range(s) == {s[i] : i \in 1..Len(s)}

\* Sequences over S without repetition, of length at most n.
InjectiveSeqs(S, n) ==
  UNION {{s \in [1..k -> S] : \A i, j \in 1..k : s[i] = s[j] => i = j} : k \in 0..n}

\* ------------------------------------------------------------ input sets
\* btcpy Sequence objects.  Sequence.max() is 0xffffffff ("no relative lock"),
\* which is kept symbolic; Sequence(n) is a relative lock of n blocks.
SequenceMax == [max |-> TRUE]

Sequence(n) == [max |-> FALSE, n |-> n]

Wallets == {"funder", "recipient"}

\* The wallet a funding transaction is built from.
FundWallets == {"funder"}

Secrets == {"preimage", "other"}

SolverSequences == {1000, 2000}

double_sha256(data) == [double_sha256 |-> data]

\* HTLC(network).init(secret_hash, recipient_address, sender_address, sequence):
\* the contract script is a function of its four inputs.
HTLC(secret_hash, recipient_address, sender_address, sequence) ==
  [secret_hash |-> secret_hash, recipient_address |-> recipient_address,
   sender_address |-> sender_address, sequence |-> sequence]

\* The contract the swap is funded into.
FundingContract == HTLC(double_sha256("preimage"), "recipient", "funder", 1000)

HTLCs == {FundingContract}

\* Amounts found locked in output 0 of a funding transaction.
FundedValues == {1000, 300}

SolverKinds == {"FundSolver", "ClaimSolver", "RefundSolver"}

\* Funding amounts a caller asks for (build_transaction does not validate
\* the sign of the amount).
Targets == {1000, 0 - 1000}

\* Amounts of the UTXOs a wallet may hold.  For the target 1000:
\* 1678 = 1000 + fee(1, 2) and 122 + 2000 = 1000 + fee(2, 2) meet the
\* threshold exactly, 2000 exceeds it, 122 + 1678 stays below it.
UtxoAmounts == {122, 1678, 2000}

p2pkh(w) == [type |-> "p2pkh", hash |-> w]

p2sh(h) == [type |-> "p2sh", hash |-> h]

\* One UTXO per amount; its transaction id is identified with the amount.
Utxo(a) == [hash |-> a, output_index |-> 0, amount |-> a, script |-> p2pkh("funder")]

UtxoSet == {Utxo(a) : a \in UtxoAmounts}

UtxoLists == InjectiveSeqs(UtxoSet, MaxUtxos)

\* ---------------------------------------------------------- fee estimator
fee_calculator_every_output(transaction_input, transaction_output) ==
  576 + ((transaction_input - 1) * 444) + (transaction_output * 102)

fee_calculator_every_input(transaction_input, transaction_output) ==
  ((transaction_input * 444) + 576) + ((transaction_output - 1) * 102)

fee_calculator(transaction_input, transaction_output) ==
  (((transaction_input - 1) * 444) + 576) + ((transaction_output - 1) * 102)

\* ---------------------------------------------------------- UTXO selector
GreedyStops(temp_amount, required) == temp_amount > required

RECURSIVE get_previous_transaction_indexes_loop(_, _, _, _, _)
get_previous_transaction_indexes_loop(unspent, amount, index, temp_amount, acc) ==
  IF index >= Len(unspent) THEN acc
  ELSE LET t == temp_amount + unspent[index + 1].amount IN
       IF GreedyStops(t, amount + fee_calculator(index + 1, 2))
       THEN Append(acc, index)
       ELSE get_previous_transaction_indexes_loop(unspent, amount, index + 1, t,
                                                  Append(acc, index))

get_previous_transaction_indexes(unspent, amount) ==
  get_previous_transaction_indexes_loop(unspent, amount, 0, 0, <<>>)

\* The same selector of utils.py, over UTXO dicts with a "value" key.
UtilsUtxo(u) ==
  [tx_hash |-> u.hash, tx_output_n |-> u.output_index, value |-> u.amount,
   script |-> u.script]

RECURSIVE utils_get_previous_transaction_indexes_loop(_, _, _, _, _)
utils_get_previous_transaction_indexes_loop(utxos, amount, index, temp_amount, acc) ==
  IF index >= Len(utxos) THEN acc
  ELSE LET t == temp_amount + utxos[index + 1].value IN
       IF t > (amount + fee_calculator(index + 1, 2))
       THEN Append(acc, index)
       ELSE utils_get_previous_transaction_indexes_loop(utxos, amount, index + 1, t,
                                                        Append(acc, index))

utils_get_previous_transaction_indexes(utxos, amount) ==
  utils_get_previous_transaction_indexes_loop(utxos, amount, 0, 0, <<>>)

\* -------------------------------------------------- Transaction.inputs/outputs
TxIn(txid, txout) ==
  [txid |-> txid, txout |-> txout, script_sig |-> [empty |-> TRUE], sequence |-> SequenceMax]

TxOut(value, n, script_pubkey) == [value |-> value, n |-> n, script_pubkey |-> script_pubkey]

\* "previous_transaction_indexes is None or index in previous_transaction_indexes"
IndexSelected(index, previous_transaction_indexes) ==
  \/ previous_transaction_indexes = None
  \/ index \in Range(previous_transaction_indexes[1])

RECURSIVE inputs_loop(_, _, _, _)
inputs_loop(utxos, previous_transaction_indexes, index, acc) ==
  IF index >= Len(utxos) THEN acc
  ELSE LET utxo == utxos[index + 1] IN
       inputs_loop(utxos, previous_transaction_indexes, index + 1,
         IF IndexSelected(index, previous_transaction_indexes)
         THEN [inputs |-> Append(acc.inputs, TxIn(utxo.hash, utxo.output_index)),
               amount |-> acc.amount + utxo.amount]
         ELSE acc)

inputs(utxos, previous_transaction_indexes) ==
  inputs_loop(utxos, previous_transaction_indexes, 0, [inputs |-> <<>>, amount |-> 0])

RECURSIVE outputs_loop(_, _, _, _)
outputs_loop(utxos, previous_transaction_indexes, index, acc) ==
  IF index >= Len(utxos) THEN acc
  ELSE LET utxo == utxos[index + 1] IN
       outputs_loop(utxos, previous_transaction_indexes, index + 1,
         IF IndexSelected(index, previous_transaction_indexes)
         THEN Append(acc, TxOut(utxo.amount, utxo.output_index, utxo.script))
         ELSE acc)

outputs(utxos, previous_transaction_indexes) ==
  outputs_loop(utxos, previous_transaction_indexes, 0, <<>>)

\* ------------------------------------------------------------ btcpy objects
MutableTransaction(version, ins, outs, locktime) ==
  [version |-> version, ins |-> ins, outs |-> outs, locktime |-> locktime]

\* MutableTransaction.spend(txouts, solvers): one solver per input, each
\* input's script_sig is replaced by the solver's witness over its prevout.
SpendAccepts(transaction, txouts) == Len(txouts) = Len(transaction.ins)

spend(transaction, txouts, witness) ==
  [transaction EXCEPT !.ins =
     [i \in 1..Len(transaction.ins) |->
        [transaction.ins[i] EXCEPT !.script_sig =
           [empty |-> FALSE, witness |-> witness, prevout |-> txouts[i]]]]]

hexlify(transaction) == [hex |-> transaction]

\* ------------------------------------------------------------- call results
\* A call that has been issued and not yet executed (pure-function runs).
Call(op, args) == [op |-> "call", fn |-> op, args |-> args, error |-> "", value |-> None]

Returned(op, args, value) == [op |-> op, args |-> args, error |-> "", value |-> value]

Raised(op, args, error) == [op |-> op, args |-> args, error |-> error, value |-> None]

NoArgs == [none |-> TRUE]

\* ---------------------------------------------------------- pure functions
\* fee_calculator(transaction_input, transaction_output)
FeeCalc ==
  /\ last.op = "call"
  /\ last.fn = "fee_calculator"
  /\ last' = Returned("fee_calculator", last.args,
                      fee_calculator(last.args.transaction_input,
                                     last.args.transaction_output))
  /\ UNCHANGED builder

\* _get_previous_transaction_indexes(utxos, amount)
UtilsSelect ==
  /\ last.op = "call"
  /\ last.fn = "_get_previous_transaction_indexes"
  /\ last' = Returned("_get_previous_transaction_indexes", last.args,
                      utils_get_previous_transaction_indexes(last.args.utxos,
                                                             last.args.amount))
  /\ UNCHANGED builder

\* ------------------------------------------------------------ constructors
NoBuilder == [variant |-> "none"]

\* Transaction.__init__ and FundTransaction.__init__
FundTransaction(version, network) ==
  [variant |-> "fund", version |-> version, network |-> network,
   transaction |-> None, fee |-> 0,
   wallet |-> None, htlc |-> None, amount |-> None, unspent |-> None,
   previous_transaction_indexes |-> None]

NewFund ==
  /\ builder' = FundTransaction(2, "testnet")
  /\ last' = Returned("FundTransaction", NoArgs, None)

\* ------------------------------------------ FundTransaction.build_transaction
InsufficientFundsIgnoringFee(amount, target, fee) == amount < target

InsufficientFunds(amount, target, fee) == amount < (target + fee)

FundOutsChangeFirst(b, amount) ==
  <<TxOut(amount - (b.fee + b.amount[1]), 0, p2pkh(b.wallet[1])),
    TxOut(b.amount[1], 1, p2sh(b.htlc[1]))>>

\* outs of the funding transaction: b is the builder after the fee was
\* recorded, amount the sum of the selected inputs.
FundOuts(b, amount) ==
  <<TxOut(b.amount[1], 0, p2sh(b.htlc[1])),
    TxOut(amount - (b.fee + b.amount[1]), 1, p2pkh(b.wallet[1]))>>

FundBuildTypeError ==
  /\ builder.variant = "fund"
  /\ last' = Raised("build_transaction", [wellTyped |-> FALSE], "TypeError")
  /\ UNCHANGED builder

FundBuild ==
  /\ builder.variant = "fund"
  /\ \E wallet \in FundWallets, htlc \in HTLCs, amount \in Targets, unspent \in UtxoLists :
       LET args == [wallet |-> wallet, htlc |-> htlc, amount |-> amount,
                    unspent |-> unspent]
           b1 == [builder EXCEPT !.wallet = Some(wallet), !.htlc = Some(htlc),
                                 !.amount = Some(amount)]
           b2 == [b1 EXCEPT !.unspent = Some(unspent)]
           b3 == [b2 EXCEPT !.previous_transaction_indexes =
                    Some(get_previous_transaction_indexes(unspent, amount))]
           sel == inputs(b3.unspent[1], b3.previous_transaction_indexes)
           b4 == [b3 EXCEPT !.fee = fee_calculator(Len(sel.inputs), 2)]
       IN  IF InsufficientFunds(sel.amount, b4.amount[1], b4.fee)
           THEN /\ builder' = b4
                /\ last' = Raised("build_transaction", args, "BalanceError")
           ELSE /\ builder' = [b4 EXCEPT !.transaction =
                      Some(MutableTransaction(b4.version, sel.inputs,
                                              FundOuts(b4, sel.amount), 0))]
                /\ last' = Returned("build_transaction", args, None)

\* ------------------------------------------------------ FundTransaction.sign
\* Python truth value of an attribute holding None or a list.
Falsy(attribute) == attribute = None \/ attribute[1] = <<>>

\* "not self.unspent or not self.previous_transaction_indexes or
\*  not self.transaction"
FundSignNotReady(b) ==
  Falsy(b.unspent) \/ Falsy(b.previous_transaction_indexes) \/ b.transaction = None

FundSign ==
  /\ builder.variant = "fund"
  /\ \E solver \in SolverKinds :
       LET args == [solver |-> solver] IN
       IF solver # "FundSolver"
       THEN /\ last' = Raised("sign", args, "TypeError")
            /\ UNCHANGED builder
       ELSE IF FundSignNotReady(builder)
       THEN /\ last' = Raised("sign", args, "ValueError")
            /\ UNCHANGED builder
       ELSE LET txouts == outputs(builder.unspent[1], builder.previous_transaction_indexes)
            IN  IF ~SpendAccepts(builder.transaction[1], txouts)
                THEN /\ last' = Raised("sign", args, "ValueError")
                     /\ UNCHANGED builder
                ELSE /\ builder' = [builder EXCEPT !.transaction =
                           Some(spend(builder.transaction[1], txouts,
                                      [solver |-> "FundSolver"]))]
                     /\ last' = Returned("sign", args, None)

\* ------------------------------------------- Transaction.hash / json / raw
HasBuilder == builder.variant # "none"

\* "if self.transaction is None: raise ValueError(...)"
TransactionIsNone(b) == b.transaction = None

txid(transaction) == [txid |-> transaction]

to_json(transaction) == [json_of |-> transaction]

Hash ==
  /\ HasBuilder
  /\ last' = IF TransactionIsNone(builder) THEN Raised("hash", NoArgs, "ValueError")
             ELSE Returned("hash", NoArgs, txid(builder.transaction[1]))
  /\ UNCHANGED builder

Json ==
  /\ HasBuilder
  /\ last' = IF TransactionIsNone(builder) THEN Raised("json", NoArgs, "ValueError")
             ELSE Returned("json", NoArgs, to_json(builder.transaction[1]))
  /\ UNCHANGED builder

Raw ==
  /\ HasBuilder
  /\ last' = IF TransactionIsNone(builder) THEN Raised("raw", NoArgs, "ValueError")
             ELSE Returned("raw", NoArgs, hexlify(builder.transaction[1]))
  /\ UNCHANGED builder

\* ---------------------------------------------------------- envelope text
\* json.dumps(dict): the JSON text of an object.
json_dumps(dict) == [enc |-> "json", of |-> dict]

\* b64encode(bytes).decode(): padded base64 text.
b64encode(bytes) == [enc |-> "b64", padded |-> TRUE, of |-> bytes]

\* ---------------------------------------------- FundTransaction.unsigned_raw
\* "if not self.transaction or not self.unspent"
FundUnsignedRawNotReady(b) == b.transaction = None \/ Falsy(b.unspent)

RECURSIVE unsigned_raw_outputs_loop(_, _, _, _)
unsigned_raw_outputs_loop(unspent, previous_transaction_indexes, index, acc) ==
  IF index >= Len(unspent) THEN acc
  ELSE LET utxo == unspent[index + 1] IN
       unsigned_raw_outputs_loop(unspent, previous_transaction_indexes, index + 1,
         IF IndexSelected(index, previous_transaction_indexes)
         THEN Append(acc, [amount |-> utxo.amount, n |-> utxo.output_index,
                           script |-> utxo.script])
         ELSE acc)

FundEnvelope(b) ==
  [fee |-> b.fee, raw |-> hexlify(b.transaction[1]),
   outputs |-> unsigned_raw_outputs_loop(b.unspent[1], b.previous_transaction_indexes,
                                         0, <<>>),
   type |-> "fund_unsigned"]

FundUnsignedRaw ==
  /\ builder.variant = "fund"
  /\ IF FundUnsignedRawNotReady(builder)
     THEN /\ last' = Raised("unsigned_raw", NoArgs, "ValueError")
          /\ UNCHANGED builder
     ELSE /\ last' = Returned("unsigned_raw", NoArgs,
                               b64encode(json_dumps(FundEnvelope(builder))))
          /\ UNCHANGED builder

\* ------------------------- ClaimTransaction / RefundTransaction.__init__
\* What get_transaction_detail may return for the referenced transaction.
DetailOutput(value, script) == [value |-> value, script |-> script]

WellFormedDetails ==
  {[outputs |-> <<DetailOutput(v, p2sh(FundingContract)),
                  DetailOutput(5000, p2pkh("funder"))>>] : v \in FundedValues}

MalformedDetails ==
  {[error |-> "not found"],
   [outputs |-> <<>>],
   [outputs |-> <<DetailOutput(1000, p2sh(FundingContract))>>],
   [outputs |-> <<DetailOutput(1000, p2pkh("recipient")),
                  DetailOutput(5000, p2pkh("funder"))>>],
   [outputs |-> <<DetailOutput(1000, p2sh(FundingContract)),
                  DetailOutput(5000, p2sh(FundingContract))>>]}

FundingDetails == WellFormedDetails \cup MalformedDetails

\* The exception the constructor body raises on a detail, "" when it
\* runs to its end.
SpendInitError(detail) ==
  IF "outputs" \notin DOMAIN detail THEN "Exception"
  ELSE IF Len(detail.outputs) < 1 THEN "IndexError"
  ELSE IF detail.outputs[1].script.type # "p2sh" THEN "WrongScriptTypeException"
  ELSE IF Len(detail.outputs) < 2 THEN "IndexError"
  ELSE IF detail.outputs[2].script.type # "p2pkh" THEN "WrongScriptTypeException"
  ELSE ""

SpendTransaction(variant, htlc_hash, wallet, detail, network, version) ==
  [variant |-> variant, version |-> version, network |-> network,
   transaction |-> None, fee |-> 0,
   wallet |-> wallet, htlc_transaction_id |-> htlc_hash,
   htlc_transaction_detail |-> detail,
   htlc |-> detail.outputs[1], htlc_value |-> detail.outputs[1].value,
   htlc_script |-> detail.outputs[1].script,
   sender_script |-> detail.outputs[2].script,
   sender_address |-> detail.outputs[2].script.hash]

ClaimTransaction(htlc_hash, wallet, detail) ==
  SpendTransaction("claim", htlc_hash, wallet, detail, "testnet", 2)

RefundTransaction(htlc_hash, wallet, detail) ==
  SpendTransaction("refund", htlc_hash, wallet, detail, "testnet", 2)

NewClaim ==
  \E wallet \in Wallets, detail \in FundingDetails :
    LET args == [htlc_hash |-> "funding_tx", wallet |-> wallet, detail |-> detail] IN
    IF SpendInitError(detail) # ""
    THEN /\ last' = Raised("ClaimTransaction", args, SpendInitError(detail))
         /\ UNCHANGED builder
    ELSE /\ builder' = ClaimTransaction("funding_tx", wallet, detail)
         /\ last' = Returned("ClaimTransaction", args, None)

NewRefund ==
  \E wallet \in Wallets, detail \in FundingDetails :
    LET args == [htlc_hash |-> "funding_tx", wallet |-> wallet, detail |-> detail] IN
    IF SpendInitError(detail) # ""
    THEN /\ last' = Raised("RefundTransaction", args, SpendInitError(detail))
         /\ UNCHANGED builder
    ELSE /\ builder' = RefundTransaction("funding_tx", wallet, detail)
         /\ last' = Returned("RefundTransaction", args, None)

\* --------------------- ClaimTransaction / RefundTransaction.build_transaction
ClaimBuild ==
  /\ builder.variant = "claim"
  /\ LET b1 == [builder EXCEPT !.fee = fee_calculator(1, 1)] IN
     builder' = [b1 EXCEPT !.transaction =
        Some(MutableTransaction(b1.version,
               <<TxIn(b1.htlc_transaction_id, 0)>>,
               <<TxOut(b1.htlc_value - fee_calculator(1, 1), 0, p2pkh(b1.wallet))>>,
               0))]
  /\ last' = Returned("build_transaction", NoArgs, None)

RefundBuildWithoutFee ==
  /\ builder.variant = "refund"
  /\ LET b1 == [builder EXCEPT !.fee = fee_calculator(1, 1)] IN
     builder' = [b1 EXCEPT !.transaction =
        Some(MutableTransaction(b1.version,
               <<TxIn(b1.htlc_transaction_id, 0)>>,
               <<TxOut(b1.htlc_value, 0, p2pkh(b1.wallet))>>,
               0))]
  /\ last' = Returned("build_transaction", NoArgs, None)

RefundBuild ==
  /\ builder.variant = "refund"
  /\ LET b1 == [builder EXCEPT !.fee = fee_calculator(1, 1)] IN
     builder' = [b1 EXCEPT !.transaction =
        Some(MutableTransaction(b1.version,
               <<TxIn(b1.htlc_transaction_id, 0)>>,
               <<TxOut(b1.htlc_value - b1.fee, 0, p2pkh(b1.wallet))>>,
               0))]
  /\ last' = Returned("build_transaction", NoArgs, None)

\* ---------------------------------- ClaimTransaction / RefundTransaction.sign
\* The contract recomputed at sign time from the solver's parameters.
SignHTLC(b, secret, sequence) ==
  HTLC(double_sha256(secret), b.wallet, b.sender_address, sequence)

\* self.transaction.spend(...) on a builder whose transaction is None is an
\* attribute access on None.
SpendSignError(b) == IF b.transaction = None THEN "AttributeError" ELSE ""

SpendSign(variant, solverKind) ==
  /\ builder.variant = variant
  /\ \E solver \in SolverKinds, secret \in Secrets, sequence \in SolverSequences :
       LET args == [solver |-> solver, secret |-> secret, sequence |-> sequence] IN
       IF solver # solverKind
       THEN /\ last' = Raised("sign", args, "Exception")
            /\ UNCHANGED builder
       ELSE LET htlc == SignHTLC(builder, secret, sequence) IN
            IF SpendSignError(builder) # ""
            THEN /\ last' = Raised("sign", args, SpendSignError(builder))
                 /\ UNCHANGED builder
            ELSE /\ builder' = [builder EXCEPT !.transaction =
                       Some(spend(builder.transaction[1],
                                  <<TxOut(builder.htlc_value, 0, builder.htlc_script)>>,
                                  [solver |-> solver, script |-> htlc]))]
                 /\ last' = Returned("sign", args, None)

ClaimSign == SpendSign("claim", "ClaimSolver")

RefundSign == SpendSign("refund", "RefundSolver")

\* --------------------------- ClaimTransaction / RefundTransaction.unsigned_raw
SpendEnvelope(b, type) ==
  [fee |-> b.fee, raw |-> hexlify(b.transaction[1]),
   outputs |-> <<[amount |-> b.htlc_value, n |-> 0, script |-> b.htlc.script]>>,
   type |-> type,
   recipient_address |-> b.wallet, sender_address |-> b.sender_address]

ClaimUnsignedRaw ==
  /\ builder.variant = "claim"
  /\ last' = IF TransactionIsNone(builder)
             THEN Raised("unsigned_raw", NoArgs, "ValueError")
             ELSE Returned("unsigned_raw", NoArgs,
                           b64encode(json_dumps(SpendEnvelope(builder, "claim_unsigned"))))
  /\ UNCHANGED builder

RefundUnsignedRaw ==
  /\ builder.variant = "refund"
  /\ last' = IF TransactionIsNone(builder)
             THEN Raised("unsigned_raw", NoArgs, "ValueError")
             ELSE Returned("unsigned_raw", NoArgs,
                           b64encode(json_dumps(SpendEnvelope(builder, "refund_unsigned"))))
  /\ UNCHANGED builder

\* ------------------------------------------------------- envelope decoder
\* clean_transaction_raw(transaction_raw): restores the base64 padding.
clean_transaction_raw(transaction_raw) ==
  IF transaction_raw.enc = "b64" THEN [transaction_raw EXCEPT !.padded = TRUE]
  ELSE transaction_raw

\* b64decode / json.loads: ok is FALSE where Python raises.
b64decode(text) ==
  IF text.enc = "b64" /\ text.padded THEN [ok |-> TRUE, bytes |-> text.of]
  ELSE [ok |-> FALSE]

json_loads(bytes) ==
  IF bytes.enc = "json" THEN [ok |-> TRUE, value |-> bytes.of]
  ELSE [ok |-> FALSE]

\* The decoded JSON object of a text, ok FALSE when any step raises.
loads_transaction_raw(transaction_raw) ==
  LET decoded == b64decode(clean_transaction_raw(transaction_raw)) IN
  IF ~decoded.ok THEN [ok |-> FALSE] ELSE json_loads(decoded.bytes)

RecognizedTypesUnprefixed ==
  {"fund_unsigned", "fund_signed", "claim_unsigned", "claim_signed",
   "refund_unsigned", "refund_signed"}

RecognizedTypes ==
  {"bitcoin_fund_unsigned", "bitcoin_fund_signed",
   "bitcoin_claim_unsigned", "bitcoin_claim_signed",
   "bitcoin_refund_unsigned", "bitcoin_refund_signed"}

is_transaction_raw_any_type(transaction_raw) ==
  LET loads == loads_transaction_raw(transaction_raw) IN
  IF ~loads.ok THEN FALSE
  ELSE "type" \in DOMAIN loads.value

is_transaction_raw(transaction_raw) ==
  LET loads == loads_transaction_raw(transaction_raw) IN
  IF ~loads.ok THEN FALSE
  ELSE IF "type" \notin DOMAIN loads.value THEN FALSE
  ELSE loads.value.type \in RecognizedTypes

\* MutableTransaction.unhexlify(raw).to_json()
unhexlify(raw) == raw.hex

\* The decode-as-a-service answer for the same raw transaction.
blockcypher_decode(raw) == to_json(raw.hex)

\* What a call did besides returning: the network requests it issued and
\* whether it deserialized the raw transaction locally.
Effects(requests, deserialized) == [requests |-> requests, deserialized |-> deserialized]

\* decode_transaction_raw(transaction_raw, offline): [error, value, effects].
decode_transaction_raw(transaction_raw, offline) ==
  IF ~is_transaction_raw(transaction_raw)
  THEN [error |-> "TransactionRawError", value |-> None, effects |-> Effects(0, FALSE)]
  ELSE LET loaded == loads_transaction_raw(transaction_raw).value
           done == IF offline THEN Effects(0, TRUE) ELSE Effects(1, FALSE)
       IN
       IF "network" \notin DOMAIN loaded
       THEN [error |-> "KeyError", value |-> None, effects |-> Effects(0, FALSE)]
       ELSE IF "raw" \notin DOMAIN loaded
       THEN [error |-> "KeyError", value |-> None, effects |-> Effects(0, FALSE)]
       ELSE IF "fee" \notin DOMAIN loaded
       THEN [error |-> "KeyError", value |-> None, effects |-> done]
       ELSE [error |-> "",
             value |-> [fee |-> loaded.fee, type |-> loaded.type,
                        tx |-> IF offline THEN to_json(unhexlify(loaded.raw))
                               ELSE blockcypher_decode(loaded.raw),
                        network |-> loaded.network],
             effects |-> done]

\* Answers of the push service to a submitted transaction.
PushResponses ==
  {[success |-> FALSE, error |-> [message |-> "rejected", code |-> 400]],
   [success |-> TRUE, txid |-> "txid"],
   [status |-> "unavailable"]}

\* submit_transaction_raw(transaction_raw), response_json being the answer
\* of the push service when the request is issued: [error, value, effects].
submit_transaction_raw(transaction_raw, response_json) ==
  IF ~is_transaction_raw(transaction_raw)
  THEN [error |-> "TransactionRawError", value |-> None, effects |-> Effects(0, FALSE)]
  ELSE LET loaded == loads_transaction_raw(transaction_raw).value IN
       IF "network" \notin DOMAIN loaded
       THEN [error |-> "KeyError", value |-> None, effects |-> Effects(0, FALSE)]
       ELSE IF "raw" \notin DOMAIN loaded
       THEN [error |-> "KeyError", value |-> None, effects |-> Effects(0, FALSE)]
       ELSE IF "success" \in DOMAIN response_json /\ ~response_json.success
       THEN [error |-> "APIError", value |-> None, effects |-> Effects(1, FALSE)]
       ELSE IF "success" \in DOMAIN response_json /\ response_json.success
       THEN IF "fee" \notin DOMAIN loaded
            THEN [error |-> "KeyError", value |-> None, effects |-> Effects(1, FALSE)]
            ELSE [error |-> "",
                  value |-> [fee |-> loaded.fee, type |-> loaded.type,
                             transaction_id |-> response_json.txid,
                             network |-> loaded.network],
                  effects |-> Effects(1, FALSE)]
       ELSE [error |-> "APIError", value |-> None, effects |-> Effects(1, FALSE)]

\* The counterparty checks and decodes the envelope the builder just emitted.
Emitted == last.op = "unsigned_raw" /\ last.error = ""

CheckEmitted ==
  /\ Emitted
  /\ last' = Returned("is_transaction_raw", [transaction_raw |-> last.value],
                      is_transaction_raw(last.value))
  /\ UNCHANGED builder

DecodeEmitted ==
  /\ Emitted
  /\ \E offline \in BOOLEAN :
       LET result == decode_transaction_raw(last.value, offline) IN
       last' = [op |-> "decode_transaction_raw",
                args |-> [transaction_raw |-> last.value, offline |-> offline],
                error |-> result.error, value |-> result.value,
                effects |-> result.effects]
  /\ UNCHANGED builder

\* The same two functions on a text received from elsewhere.
IsTransactionRawCall ==
  /\ last.op = "call"
  /\ last.fn = "is_transaction_raw"
  /\ last' = Returned("is_transaction_raw", last.args,
                      is_transaction_raw(last.args.transaction_raw))
  /\ UNCHANGED builder

DecodeTransactionRawCall ==
  /\ last.op = "call"
  /\ last.fn = "decode_transaction_raw"
  /\ LET result == decode_transaction_raw(last.args.transaction_raw, last.args.offline) IN
     last' = [op |-> "decode_transaction_raw", args |-> last.args,
              error |-> result.error, value |-> result.value,
              effects |-> result.effects]
  /\ UNCHANGED builder

SubmitTransactionRawCall ==
  /\ last.op = "call"
  /\ last.fn = "submit_transaction_raw"
  /\ \E response_json \in PushResponses :
       LET result == submit_transaction_raw(last.args.transaction_raw, response_json) IN
       last' = [op |-> "submit_transaction_raw", args |-> last.args,
                error |-> result.error, value |-> result.value,
                effects |-> result.effects]
  /\ UNCHANGED builder

Init ==
  /\ builder = NoBuilder
  /\ last = Returned("start", NoArgs, None)

Next ==
  \/ NewFund
  \/ FundBuildTypeError
  \/ FundBuild
  \/ FundSign
  \/ Hash
  \/ Json
  \/ Raw
  \/ FundUnsignedRaw
  \/ NewClaim
  \/ NewRefund
  \/ ClaimBuild
  \/ RefundBuild
  \/ ClaimSign
  \/ RefundSign
  \/ ClaimUnsignedRaw
  \/ RefundUnsignedRaw
  \/ CheckEmitted
  \/ DecodeEmitted

Spec == Init /\ [][Next]_vars

\* Pure-function runs: Init draws a call and its arguments, the actions
\* execute it.
FeeCalls ==
  {Call("fee_calculator", [transaction_input |-> i, transaction_output |-> o]) :
     i \in 1..MaxCount, o \in 0..MaxCount}

SelectCalls ==
  {Call("_get_previous_transaction_indexes",
        [utxos |-> [i \in 1..Len(unspent) |-> UtilsUtxo(unspent[i])], amount |-> amount]) :
     unspent \in UtxoLists, amount \in Targets}

\* Texts a counterparty may hand to the decoder.
DoctestTransaction ==
  MutableTransaction(2, <<TxIn(1678, 0)>>,
                     <<TxOut(1000, 0, p2sh(FundingContract)),
                       TxOut(0, 1, p2pkh("funder"))>>, 0)

DoctestEnvelope ==
  [fee |-> 678, raw |-> hexlify(DoctestTransaction),
   outputs |-> <<[amount |-> 1678, n |-> 0, script |-> p2pkh("funder")]>>,
   network |-> "testnet", type |-> "bitcoin_fund_unsigned"]

ReceivedTexts ==
  {b64encode(json_dumps(DoctestEnvelope)),
   [b64encode(json_dumps(DoctestEnvelope)) EXCEPT !.padded = FALSE],
   b64encode(json_dumps([DoctestEnvelope EXCEPT !.type = "bitcoin_refund_signed"])),
   b64encode(json_dumps([DoctestEnvelope EXCEPT !.type = "fund_unsigned"])),
   b64encode(json_dumps([DoctestEnvelope EXCEPT !.type = "ethereum_fund_unsigned"])),
   b64encode(json_dumps([fee |-> 678, raw |-> hexlify(DoctestTransaction),
                         network |-> "testnet"])),
   b64encode(json_dumps([fee |-> 678, raw |-> hexlify(DoctestTransaction),
                         type |-> "bitcoin_fund_unsigned"])),
   b64encode([enc |-> "binary", of |-> "not json"]),
   [enc |-> "text", of |-> "not base64"]}

DecoderCalls ==
  {Call("is_transaction_raw", [transaction_raw |-> t]) : t \in ReceivedTexts}
  \cup {Call("decode_transaction_raw", [transaction_raw |-> t, offline |-> o]) :
          t \in ReceivedTexts, o \in BOOLEAN}
  \cup {Call("submit_transaction_raw", [transaction_raw |-> t]) : t \in ReceivedTexts}

\* ------------------------------------------------------- the refund command
\* RefundTransaction(version, network).build_transaction(address,
\* transaction_id, amount).transaction_raw() as the command sees it: the
\* chain raises, or returns the envelope text of an unsigned refund.
RefundErrors == {"Exception", "APIError", "AddressError"}

RefundTransactionRaw(address, transaction, amount, version, network) ==
  {Raised("transaction_raw", NoArgs, error) : error \in RefundErrors}
  \cup {Returned("transaction_raw", NoArgs,
                 b64encode(json_dumps(
                   [fee |-> fee_calculator(1, 1),
                    raw |-> hexlify(MutableTransaction(version,
                              <<TxIn(transaction, 0)>>,
                              <<TxOut(amount - fee_calculator(1, 1), 0, p2pkh(address))>>, 0)),
                    network |-> network,
                    type |-> "bitcoin_refund_unsigned"])))}

\* What click.echo leaves on a stream that nothing was written to.
NoOutput == [enc |-> "text", of |-> ""]

\* The exit status of a process ended by sys.exit(code): no argument (None)
\* is a successful termination.
sys_exit(code) == IF code = None THEN 0 ELSE code[1]

\* refund(address, transaction, amount, version, network), given what the
\* builder chain did.
refund(outcome) ==
  IF outcome.error = ""
  THEN [stdout |-> outcome.value, stderr |-> NoOutput, exit_code |-> 0,
        exception |-> ""]
  ELSE [stdout |-> NoOutput,
        stderr |-> [enc |-> "text", of |-> "Error: {}", format |-> outcome.error],
        exit_code |-> sys_exit(None), exception |-> outcome.error]

RefundCommand ==
  /\ last.op = "call"
  /\ last.fn = "refund"
  /\ \E outcome \in RefundTransactionRaw(last.args.address, last.args.transaction,
                                          last.args.amount, last.args.version,
                                          last.args.network) :
       last' = Returned("refund", last.args, refund(outcome))
  /\ UNCHANGED builder

RefundCalls ==
  {Call("refund", [address |-> "funder", transaction |-> "funding_tx",
                   amount |-> amount, version |-> 2, network |-> network]) :
     amount \in {300, 1000}, network \in {"testnet", "mainnet"}}

InitPure ==
  /\ builder = NoBuilder
  /\ last \in FeeCalls \cup SelectCalls \cup DecoderCalls \cup RefundCalls

NextPure ==
  \/ FeeCalc
  \/ UtilsSelect
  \/ IsTransactionRawCall
  \/ DecodeTransactionRawCall
  \/ SubmitTransactionRawCall
  \/ RefundCommand

SpecPure == InitPure /\ [][NextPure]_vars

\* =================================================================== claims
\* Vocabulary of the properties below.
FeeReturned == last.op = "fee_calculator"

\* A Fund build that got past its argument checks has just run.
FundBuildRan ==
  /\ builder.variant = "fund"
  /\ last.op = "build_transaction"
  /\ last.error \in {"", "BalanceError"}

FundBuilt == FundBuildRan /\ last.error = ""

RECURSIVE PrefixSum(_, _)
PrefixSum(unspent, k) == IF k = 0 THEN 0 ELSE PrefixSum(unspent, k - 1) + unspent[k].amount

\* The prefix lengths whose sum covers the target plus the fee of that many
\* inputs and two outputs.
SufficientPrefixes(unspent, amount) ==
  {k \in 1..Len(unspent) : PrefixSum(unspent, k) >= amount + fee_calculator(k, 2)}

MinimalPrefix(unspent, amount) ==
  CHOOSE k \in SufficientPrefixes(unspent, amount) :
    \A j \in SufficientPrefixes(unspent, amount) : k <= j

\* The UTXO of the builder's list that an input spends.
SpentUtxo(b, txin) ==
  CHOOSE u \in Range(b.unspent[1]) : u.hash = txin.txid /\ u.output_index = txin.txout

RECURSIVE SumOver(_, _)
SumOver(f, n) == IF n = 0 THEN 0 ELSE SumOver(f, n - 1) + f[n]

InputTotal(b) ==
  LET ins == b.transaction[1].ins IN
  SumOver([i \in 1..Len(ins) |-> SpentUtxo(b, ins[i]).amount], Len(ins))

OutputTotal(b) ==
  LET outs == b.transaction[1].outs IN
  SumOver([i \in 1..Len(outs) |-> outs[i].value], Len(outs))

\* C1 (as stated): for i >= 1 and o >= 0, fee_calculator(i, o) returns
\* 576 + (i - 1) * 444 + o * 102.
C1_FeeChargesEveryOutput ==
  FeeReturned =>
    last.value = 576 + (last.args.transaction_input - 1) * 444
                     + last.args.transaction_output * 102

\* C1 (amended): for i >= 1 and o >= 0, fee_calculator(i, o) returns
\* 576 + (i - 1) * 444 + (o - 1) * 102: the first output is free of charge.
C1_FeeLinearModel ==
  FeeReturned =>
    last.value = 576 + (last.args.transaction_input - 1) * 444
                     + (last.args.transaction_output - 1) * 102

C1_Witness ==
  /\ FeeReturned
  /\ last.args.transaction_input = 3
  /\ last.args.transaction_output = 0
  /\ last.value = 1362

\* C2: the regression values fee_calculator(2, 9) = 1836 and
\* fee_calculator(1, 1) = 576.
C2_FeeRegressionValues ==
  /\ (FeeReturned /\ last.args = [transaction_input |-> 2, transaction_output |-> 9])
       => last.value = 1836
  /\ (FeeReturned /\ last.args = [transaction_input |-> 1, transaction_output |-> 1])
       => last.value = 576

C2_Witness ==
  /\ FeeReturned
  /\ last.args = [transaction_input |-> 2, transaction_output |-> 9]
  /\ last.value = 1836

\* C3 (as stated): the selector returns exactly the indexes 0..k-1 for the
\* smallest k whose prefix sum is >= target + fee(k, 2); a prefix that meets
\* the threshold exactly ends the selection.
C3_SelectsMinimalPrefix ==
  (FundBuildRan /\ SufficientPrefixes(builder.unspent[1], builder.amount[1]) # {})
    => builder.previous_transaction_indexes[1] =
         [i \in 1..MinimalPrefix(builder.unspent[1], builder.amount[1]) |-> i - 1]

\* C4: a Fund build that installs a transaction has selected inputs worth at
\* least target + recorded fee, and a Fund build whose selected inputs are
\* worth less fails with BalanceError and leaves the held transaction as it
\* was.
C4_BuiltIsFunded ==
  FundBuilt => InputTotal(builder) >= builder.amount[1] + builder.fee

C4_UnderfundedStep ==
  (/\ builder.variant = "fund"
   /\ builder'.variant = "fund"
   /\ last'.op = "build_transaction"
   /\ last'.error # "TypeError"
   /\ inputs(builder'.unspent[1], builder'.previous_transaction_indexes).amount
        < builder'.amount[1] + builder'.fee)
    => (last'.error = "BalanceError" /\ builder'.transaction = builder.transaction)

C4_NeverUnderFunds == [](C4_BuiltIsFunded) /\ [][C4_UnderfundedStep]_vars

C4_Witness ==
  /\ FundBuildRan
  /\ last.error = "BalanceError"
  /\ builder.transaction # None
  /\ builder.unspent[1] # <<>>

\* C5 (as stated): the Fund build fails with BalanceError only when no
\* prefix of the wallet's UTXO list covers amount + fee(k, 2).
C5_FailsOnlyWhenNoPrefixCovers ==
  (FundBuildRan /\ last.error = "BalanceError")
    => SufficientPrefixes(last.args.unspent, last.args.amount) = {}

\* C6: after a successful Fund build the transaction has two outputs, the
\* first locking the target amount to the contract's script hash, the
\* second paying accumulated - fee - target to the funder; the recorded fee
\* is fee(number of inputs, 2) and inputs = outputs + fee.
C6_FundOutputs ==
  FundBuilt =>
    LET tx == builder.transaction[1] IN
    /\ Len(tx.outs) = 2
    /\ tx.outs[1].value = last.args.amount
    /\ tx.outs[1].script_pubkey = p2sh(last.args.htlc)
    /\ tx.outs[2].value = InputTotal(builder) - builder.fee - last.args.amount
    /\ tx.outs[2].script_pubkey = p2pkh(last.args.wallet)
    /\ builder.fee = fee_calculator(Len(tx.ins), 2)
    /\ InputTotal(builder) = OutputTotal(builder) + builder.fee

C6_Witness ==
  /\ FundBuilt
  /\ Len(builder.transaction[1].ins) = 2
  /\ builder.transaction[1].outs[2].value > 0

\* C7 (as stated): in every variant, sign with a solver of the right type on
\* a builder that holds no transaction fails with the error raw/hash raise
\* before build (ValueError), and the builder still holds no transaction.
SolverOf(variant) ==
  CASE variant = "fund" -> "FundSolver"
    [] variant = "claim" -> "ClaimSolver"
    [] variant = "refund" -> "RefundSolver"

C7_SignBeforeBuildIsStateError ==
  (/\ HasBuilder
   /\ last.op = "sign"
   /\ last.args.solver = SolverOf(builder.variant)
   /\ builder.transaction = None)
    => last.error = "ValueError"

\* C8 (as stated): raw, hash, json and unsigned_raw fail with ValueError
\* while the builder holds no transaction and succeed once build_transaction
\* has succeeded.
C8_QueriesFollowBuild ==
  (HasBuilder /\ last.op \in {"raw", "hash", "json", "unsigned_raw"})
    => /\ builder.transaction = None => last.error = "ValueError"
       /\ builder.transaction # None => last.error = ""

\* C9 (as stated): the type tag of an emitted envelope is <variant>_unsigned
\* between build and sign, and <variant>_signed after sign.
Signed(transaction) ==
  /\ Len(transaction.ins) > 0
  /\ \A i \in 1..Len(transaction.ins) : ~transaction.ins[i].script_sig.empty

TypeTag(variant, signed) ==
  CASE variant = "fund" -> (IF signed THEN "fund_signed" ELSE "fund_unsigned")
    [] variant = "claim" -> (IF signed THEN "claim_signed" ELSE "claim_unsigned")
    [] variant = "refund" -> (IF signed THEN "refund_signed" ELSE "refund_unsigned")

C9_TypeTagTracksLifecycle ==
  Emitted =>
    last.value.of.of.type = TypeTag(builder.variant, Signed(builder.transaction[1]))

\* C10 (as stated): an envelope a builder emits is accepted by
\* is_transaction_raw, and decode_transaction_raw returns the fee, type,
\* network and raw transaction the builder encoded.
C10_EnvelopeRoundTrip ==
  /\ (HasBuilder /\ last.op = "is_transaction_raw") => last.value = TRUE
  /\ (HasBuilder /\ last.op = "decode_transaction_raw")
       => /\ last.error = ""
          /\ last.value.fee = builder.fee
          /\ last.value.type \in RecognizedTypesUnprefixed \cup RecognizedTypes
          /\ last.value.network = builder.network
          /\ last.value.tx = to_json(builder.transaction[1])

\* C11: is_transaction_raw returns False, without raising, on a text that
\* is not base64, whose payload is not JSON, that has no type field or whose
\* type is not one of the six recognized values; on such a text
\* decode_transaction_raw and submit_transaction_raw raise
\* TransactionRawError before deserializing the transaction or issuing a
\* network request.
MalformedText(text) ==
  \/ text.enc # "b64"
  \/ text.of.enc # "json"
  \/ "type" \notin DOMAIN text.of.of
  \/ text.of.of.type \notin RecognizedTypes

C11_MalformedTextRejected ==
  /\ (last.op = "is_transaction_raw" /\ MalformedText(last.args.transaction_raw))
       => (last.error = "" /\ last.value = FALSE)
  /\ (/\ last.op \in {"decode_transaction_raw", "submit_transaction_raw"}
      /\ MalformedText(last.args.transaction_raw))
       => /\ last.error = "TransactionRawError"
          /\ last.effects.requests = 0
          /\ ~last.effects.deserialized

C11_Witness ==
  /\ last.op = "submit_transaction_raw"
  /\ last.args.transaction_raw.enc = "b64"
  /\ last.args.transaction_raw.of.enc = "json"
  /\ "type" \in DOMAIN last.args.transaction_raw.of.of
  /\ last.args.transaction_raw.of.of.type = "ethereum_fund_unsigned"
  /\ last.error = "TransactionRawError"

\* C12 (as stated): constructing a Claim or Refund builder on a funding
\* transaction without a recognizable HTLC output (no outputs field, fewer
\* than two outputs, or a first output that is not a script-hash script)
\* fails with the contract-not-found error, the Exception("Not found HTLC
\* ...") of the constructors, and produces no builder.
NoRecognizableHTLC(detail) ==
  \/ "outputs" \notin DOMAIN detail
  \/ Len(detail.outputs) < 2
  \/ detail.outputs[1].script.type # "p2sh"

C12_Step ==
  (/\ last'.op \in {"ClaimTransaction", "RefundTransaction"}
   /\ NoRecognizableHTLC(last'.args.detail))
    => (last'.error = "Exception" /\ builder' = builder)

C12_ContractNotFound == [][C12_Step]_vars

\* C13: a built Claim or Refund transaction has one input, spending output
\* 0 of the funding transaction, and one output, paying the funded amount
\* minus fee(1, 1) to the wallet's ordinary address; the recorded fee is
\* fee(1, 1), so input amount = output amount + recorded fee.
SpendVariant == builder.variant \in {"claim", "refund"}

C13_SpendShape ==
  (SpendVariant /\ builder.transaction # None) =>
    LET tx == builder.transaction[1]
        funded == builder.htlc_transaction_detail.outputs[1].value
    IN  /\ Len(tx.ins) = 1
        /\ tx.ins[1].txid = builder.htlc_transaction_id
        /\ tx.ins[1].txout = 0
        /\ Len(tx.outs) = 1
        /\ tx.outs[1].value = funded - fee_calculator(1, 1)
        /\ tx.outs[1].script_pubkey = p2pkh(builder.wallet)
        /\ builder.fee = fee_calculator(1, 1)
        /\ funded = tx.outs[1].value + builder.fee

C13_Witness ==
  /\ builder.variant = "refund"
  /\ last.op = "build_transaction"
  /\ builder.transaction # None
  /\ builder.transaction[1].outs[1].value = 424

\* C14 (as stated): in a Refund transaction that is built and signed, the
\* input's sequence field equals the timeout of the contract (the sequence
\* the HTLC was derived with at sign time); it is not left at Sequence.max().
RefundSigned ==
  /\ builder.variant = "refund"
  /\ builder.transaction # None
  /\ ~builder.transaction[1].ins[1].script_sig.empty

C14_RefundSequenceIsTimeout ==
  RefundSigned =>
    LET txin == builder.transaction[1].ins[1] IN
    /\ txin.sequence # SequenceMax
    /\ txin.sequence = Sequence(txin.script_sig.witness.script.sequence)

\* C15 (as stated): Claim.sign and Refund.sign recompute the contract from
\* the solver's parameters, and with the funding-time preimage and timeout
\* the recomputed contract has the four inputs of the funding-time contract:
\* hash(preimage), the swap recipient, the funder, the funding timeout --
\* also in the Refund variant, whose wallet is the funder's.
\* The contract locked by output 0 of the funding transaction.
FundedContract(b) == b.htlc_script.hash

\* The builder's wallet is the party the variant is for: the recipient
\* claims, the funder refunds.
OwnWallet(b) ==
  \/ b.variant = "claim" /\ b.wallet = FundedContract(b).recipient_address
  \/ b.variant = "refund" /\ b.wallet = FundedContract(b).sender_address

SignedWithFundingParameters ==
  /\ SpendVariant
  /\ last.op = "sign"
  /\ last.error = ""
  /\ OwnWallet(builder)
  /\ double_sha256(last.args.secret) = FundedContract(builder).secret_hash
  /\ last.args.sequence = FundedContract(builder).sequence

C15_SignRecomputesFundingContract ==
  SignedWithFundingParameters =>
    LET script == builder.transaction[1].ins[1].script_sig.witness.script IN
    /\ script.secret_hash = double_sha256(last.args.secret)
    /\ script.recipient_address = FundedContract(builder).recipient_address
    /\ script.sender_address = FundedContract(builder).sender_address
    /\ script.sequence = last.args.sequence
    /\ script = FundedContract(builder)

\* C16 (as stated): the refund command terminates with exit code 0 only when
\* what it printed is a valid transaction envelope, and when building the
\* refund transaction raises, it reports the error and terminates with a
\* non-zero exit code.
C16_RefundExitCode ==
  last.op = "refund" =>
    /\ (last.value.exit_code = 0) => is_transaction_raw(last.value.stdout)
    /\ (last.value.exception # "") =>
         (last.value.stderr # NoOutput /\ last.value.exit_code # 0)

\* C17 (as stated): a Fund build that fails with the insufficient-funds
\* error on a builder already holding a built transaction leaves the
\* recorded fee, amount, UTXO list and selected indexes as they were.
FailedRebuild ==
  /\ builder.variant = "fund"
  /\ builder.transaction # None
  /\ last'.op = "build_transaction"
  /\ last'.error = "BalanceError"

C17_Step ==
  FailedRebuild =>
    /\ builder'.transaction = builder.transaction
    /\ builder'.fee = builder.fee
    /\ builder'.amount = builder.amount
    /\ builder'.unspent = builder.unspent
    /\ builder'.previous_transaction_indexes = builder.previous_transaction_indexes

C17_FailedBuildKeepsState == [][C17_Step]_vars

\* C18 (as stated): every transaction a build produced has at least one
\* input and no negative output amount, in every variant.
HoldsTransaction == builder.variant # "none" /\ builder.transaction # None

C18_WellFormedTransaction ==
  HoldsTransaction =>
    LET tx == builder.transaction[1] IN
    /\ Len(tx.ins) >= 1
    /\ \A i \in 1..Len(tx.outs) : tx.outs[i].value >= 0

====
